---- MODULE Spec2Model ----
(***************************************************************************)
(* Model of the game-tree search core of wongs-game-solver (src/main.rs):  *)
(* the board State, the grow-move generator, the static cost, the three    *)
(* search variants (minimax, negamax, abnegamax) and the parallel root     *)
(* move ranking get_optimal_moves.                                         *)
(*                                                                         *)
(* Rust integer arithmetic is build dependent: with overflow checks an     *)
(* overflowing operation panics, without them it wraps.  The variable      *)
(* `checked` is the build the call runs in; both are modelled.             *)
(***************************************************************************)
EXTENDS Integers, Sequences, FiniteSets, TLC

\* ---------------------------------------------------------------- bounds
\* side of the square board (the program is compiled with one fixed side)
TABLE_SIZE == 4
\* number of State::place overwrites applied to the initial board
MaxPlace == 2
\* largest search depth handed to a search entry point
MaxDepth == 3
\* largest number of root moves whose evaluations are interleaved
MaxFan == 3

\* ------------------------------------------------------------- constants
I32_MAX == 2147483647
I32_MIN == (-I32_MAX) - 1
U16_MAX == 65535
\* get_optimal_moves keeps the first TopMoves entries of the sorted list
TopMoves == 5

Color == {"Empty", "Black", "White"}
Idx == 0 .. (TABLE_SIZE - 1)
TABLE_SIZE_MINUS_ONE == TABLE_SIZE - 1

VARIABLES
    table,      \* State.table: table[x][y] is the Color of row x, column y
    placed,     \* number of place() calls made while setting the board up
    pc,         \* "setup" | "queried" | "plain" | "searched" | "ranking" | "returned" | "panicked"
    checked,    \* TRUE: the build panics on integer overflow; FALSE: it wraps
    depth,      \* the depth argument of the running / finished call
    sign,       \* the sign argument of the search call (+1 White, -1 Black)
    grows,      \* [White |-> possible_grows(White), Black |-> possible_grows(Black)]
    costv,      \* value returned by State::cost
    mm,         \* value returned by Node::minimax(depth, sign = 1)
    nm,         \* value returned by Node::negamax(depth, sign)
    nodes,      \* move sequences on which negamax was invoked
    ab,         \* outcome of Node::abnegamax(depth, alpha, beta, sign)
    window,     \* <<alpha, beta>> handed to abnegamax
    moves,      \* get_optimal_moves: the root move list being mapped
    scores,     \* get_optimal_moves: per root move, whether evaluated and its score
    order,      \* get_optimal_moves: root move indices in the order they completed
    overflowed, \* an integer operation overflowed during the ranking call
    result      \* get_optimal_moves: the returned Vec<(i32, Position)>

vars == <<table, placed, pc, checked, depth, sign, grows, costv, mm, nm, nodes,
          ab, window, moves, scores, order, overflowed, result>>

\* ------------------------------------------------------------ State model

\* a board State::random can return: cell (x, y) holds c1 when x + y is even
\* and c2 when it is odd (c1 = c2: every cell the same)
Pattern(c1, c2) ==
    [x \in Idx |-> [y \in Idx |-> IF (x + y) % 2 = 0 THEN c1 ELSE c2]]

new == Pattern("Empty", "Empty")

\* the boards a position is set up from: State::new (all Empty), the all White
\* board, and the chequered boards of White or Black stones and Empty cells
Seeds == {Pattern(c1, c2) : c1 \in Color, c2 \in {"Empty", "White"}}

place(t, x, y, color) == [t EXCEPT ![x][y] = color]

with(t, pos, color) == place(t, pos[1], pos[2], color)

get_field(t, x, y) ==
    IF x < 0 \/ x > TABLE_SIZE_MINUS_ONE \/ y < 0 \/ y > TABLE_SIZE_MINUS_ONE
    THEN "None"
    ELSE t[x][y]

\* the two offset arrays of have_adjacment, under the names the code gives them
ortho == << <<-1, -1>>, <<-1, 1>>, <<1, -1>>, <<1, 1>> >>
diagonal == << <<-1, 0>>, <<1, 0>>, <<0, -1>>, <<0, 1>> >>

CountMatches(t, offs, x, y, color) ==
    Cardinality({i \in 1 .. Len(offs) :
                    get_field(t, offs[i][1] + x, offs[i][2] + y) = color})

\* variant counting the eight neighbours as one group
have_adjacment_union(t, x, y, color) ==
    /\ t[x][y] = "Empty"
    /\ CountMatches(t, ortho, x, y, color) + CountMatches(t, diagonal, x, y, color) >= 2

have_adjacment(t, x, y, color) ==
    /\ t[x][y] = "Empty"
    /\ \/ CountMatches(t, ortho, x, y, color) >= 2
       \/ CountMatches(t, diagonal, x, y, color) >= 2

\* (0..TABLE_SIZE).cartesian_product(0..TABLE_SIZE): first component outermost
cartesian_product ==
    [k \in 1 .. (TABLE_SIZE * TABLE_SIZE) |->
        <<(k - 1) \div TABLE_SIZE, (k - 1) % TABLE_SIZE>>]

possible_grows(t, color) ==
    SelectSeq(cartesian_product, LAMBDA p : have_adjacment(t, p[1], p[2], color))

is_finished(t) ==
    Len(possible_grows(t, "Black")) = 0 /\ Len(possible_grows(t, "White")) = 0

Cells == Idx \X Idx

\* variant with an else-if: an Empty cell counts for one colour at most
cost_once(t) ==
    LET white == Cardinality({p \in Cells : t[p[1]][p[2]] = "White"})
                 + Cardinality({p \in Cells : t[p[1]][p[2]] = "Empty"
                                    /\ have_adjacment(t, p[1], p[2], "White")})
        black == Cardinality({p \in Cells : t[p[1]][p[2]] = "Black"})
                 + Cardinality({p \in Cells : t[p[1]][p[2]] = "Empty"
                                    /\ ~have_adjacment(t, p[1], p[2], "White")
                                    /\ have_adjacment(t, p[1], p[2], "Black")})
    IN  white - black

cost(t) ==
    LET white == Cardinality({p \in Cells : t[p[1]][p[2]] = "White"})
                 + Cardinality({p \in Cells : t[p[1]][p[2]] \notin {"White", "Black"}
                                    /\ have_adjacment(t, p[1], p[2], "White")})
        black == Cardinality({p \in Cells : t[p[1]][p[2]] = "Black"})
                 + Cardinality({p \in Cells : t[p[1]][p[2]] \notin {"White", "Black"}
                                    /\ have_adjacment(t, p[1], p[2], "Black")})
    IN  white - black

\* ------------------------------------------------------- integer helpers

\* i32 negation: i32::MIN has no positive counterpart; a wrapping build yields
\* i32::MIN again (a checking build panics before the value is used)
NegI32(x) == IF x = I32_MIN THEN I32_MIN ELSE -x

MaxI(a, b) == IF a >= b THEN a ELSE b

RECURSIVE SeqMax(_)
SeqMax(s) == IF Len(s) = 1 THEN s[1] ELSE MaxI(s[1], SeqMax(Tail(s)))

RECURSIVE SeqMin(_)
SeqMin(s) ==
    IF Len(s) = 1 THEN s[1]
    ELSE LET r == SeqMin(Tail(s)) IN IF s[1] <= r THEN s[1] ELSE r

ColorOf(sgn) == IF sgn = 1 THEN "White" ELSE "Black"

\* ---------------------------------------------------------------- search

RECURSIVE minimax(_, _, _)
minimax(t, d, max) ==
    IF d = 0 \/ is_finished(t) THEN cost(t)
    ELSE IF max
         THEN LET g == possible_grows(t, "White")
                  vals == [i \in 1 .. Len(g) |->
                              minimax(place(t, g[i][1], g[i][2], "White"), d - 1, FALSE)]
                          \o <<>>
              IN  IF Len(g) = 0 THEN cost(t) ELSE SeqMax(vals)
         ELSE LET g == possible_grows(t, "Black")
                  vals == [i \in 1 .. Len(g) |->
                              minimax(place(t, g[i][1], g[i][2], "Black"), d - 1, TRUE)]
                          \o <<>>
              IN  IF Len(g) = 0 THEN cost(t) ELSE SeqMin(vals)

RECURSIVE negamax(_, _, _)
negamax(t, d, sgn) ==
    IF d = 0 THEN sgn * cost(t)
    ELSE LET g == possible_grows(t, ColorOf(sgn))
             vals == [i \in 1 .. Len(g) |->
                         NegI32(negamax(with(t, g[i], ColorOf(sgn)), d - 1, -sgn))]
                     \o <<>>
         IN  IF Len(g) = 0 THEN cost(t) ELSE SeqMax(vals)

\* the nodes (move sequences from the root) on which negamax is invoked
RECURSIVE negamax_nodes(_, _, _, _)
negamax_nodes(t, d, sgn, path) ==
    IF d = 0 THEN {path}
    ELSE LET g == possible_grows(t, ColorOf(sgn))
         IN  {path} \cup UNION {negamax_nodes(with(t, g[i], ColorOf(sgn)), d - 1, -sgn,
                                              Append(path, g[i])) : i \in 1 .. Len(g)}

\* abnegamax, returning besides its value what the run did:
\*   panic : the call panicked on an overflow (checking build), val is then unused
\*   ovf   : an overflowing negation was executed (and wrapped, or panicked)
\*   log   : the events of the run in order: "visit" of a node with the window it
\*           received, "fold" after alpha = max(alpha, -child) with the new alpha,
\*           "ret" with the value returned
Ev(kind, path, a, b) == [kind |-> kind, path |-> path, a |-> a, b |-> b]

RECURSIVE abnegamax(_, _, _, _, _, _, _)
RECURSIVE abLoop(_, _, _, _, _, _, _, _, _, _, _)
RECURSIVE abLoopNoCut(_, _, _, _, _, _, _, _, _, _, _)

\* variant of the loop without the alpha >= beta return
abLoopNoCut(t, d, alpha, beta, sgn, chk, path, g, i, log, ovf) ==
    IF i > Len(g)
    THEN [val |-> alpha, panic |-> FALSE, ovf |-> ovf,
          log |-> Append(log, Ev("ret", path, alpha, beta))]
    ELSE LET negOvf == alpha = I32_MIN \/ beta = I32_MIN
         IN  IF chk /\ negOvf
             THEN [val |-> alpha, panic |-> TRUE, ovf |-> TRUE, log |-> log]
             ELSE LET child == abnegamax(with(t, g[i], ColorOf(sgn)), d - 1,
                                         NegI32(alpha), NegI32(beta), -sgn, chk,
                                         Append(path, g[i]))
                      resOvf == child.val = I32_MIN
                      a2 == MaxI(alpha, NegI32(child.val))
                      log2 == Append(log \o child.log, Ev("fold", path, a2, beta))
                  IN  IF child.panic
                      THEN [val |-> alpha, panic |-> TRUE, ovf |-> TRUE,
                            log |-> log \o child.log]
                      ELSE IF chk /\ resOvf
                      THEN [val |-> alpha, panic |-> TRUE, ovf |-> TRUE,
                            log |-> log \o child.log]
                      ELSE abLoopNoCut(t, d, a2, beta, sgn, chk, path, g, i + 1, log2,
                                       ovf \/ negOvf \/ child.ovf \/ resOvf)

\* the for loop of abnegamax from its i-th move on
abLoop(t, d, alpha, beta, sgn, chk, path, g, i, log, ovf) ==
    IF i > Len(g)
    THEN [val |-> alpha, panic |-> FALSE, ovf |-> ovf,
          log |-> Append(log, Ev("ret", path, alpha, beta))]
    ELSE LET negOvf == alpha = I32_MIN \/ beta = I32_MIN
         IN  IF chk /\ negOvf
             THEN [val |-> alpha, panic |-> TRUE, ovf |-> TRUE, log |-> log]
             ELSE LET child == abnegamax(with(t, g[i], ColorOf(sgn)), d - 1,
                                         NegI32(alpha), NegI32(beta), -sgn, chk,
                                         Append(path, g[i]))
                      resOvf == child.val = I32_MIN
                      a2 == MaxI(alpha, NegI32(child.val))
                      log2 == Append(log \o child.log, Ev("fold", path, a2, beta))
                      ovf2 == ovf \/ negOvf \/ child.ovf \/ resOvf
                  IN  IF child.panic
                      THEN [val |-> alpha, panic |-> TRUE, ovf |-> TRUE,
                            log |-> log \o child.log]
                      ELSE IF chk /\ resOvf
                      THEN [val |-> alpha, panic |-> TRUE, ovf |-> TRUE,
                            log |-> log \o child.log]
                      ELSE IF a2 >= beta
                      THEN [val |-> a2, panic |-> FALSE, ovf |-> ovf2,
                            log |-> Append(log2, Ev("ret", path, a2, beta))]
                      ELSE abLoop(t, d, a2, beta, sgn, chk, path, g, i + 1, log2, ovf2)

abnegamax(t, d, alpha, beta, sgn, chk, path) ==
    IF d = 0
    THEN [val |-> cost(t), panic |-> FALSE, ovf |-> FALSE,
          log |-> <<Ev("visit", path, alpha, beta), Ev("ret", path, cost(t), beta)>>]
    ELSE abLoop(t, d, alpha, beta, sgn, chk, path, possible_grows(t, ColorOf(sgn)), 1,
                <<Ev("visit", path, alpha, beta)>>, FALSE)


\* ------------------------------------------------------ root move ranking

\* insertion of e behind every entry that does not compare greater than it:
\* the stable descending order of par_sort_by(|a, b| b.0.partial_cmp(&a.0))
RECURSIVE InsertDesc(_, _)
InsertDesc(sorted, e) ==
    IF Len(sorted) = 0 THEN <<e>>
    ELSE IF sorted[1][1] >= e[1]
         THEN <<sorted[1]>> \o InsertDesc(Tail(sorted), e)
         ELSE <<e>> \o sorted

\* variant comparing a with b: ascending order
RECURSIVE InsertAsc(_, _)
InsertAsc(sorted, e) ==
    IF Len(sorted) = 0 THEN <<e>>
    ELSE IF sorted[1][1] <= e[1]
         THEN <<sorted[1]>> \o InsertAsc(Tail(sorted), e)
         ELSE <<e>> \o sorted

RECURSIVE par_sort_by_asc(_)
par_sort_by_asc(foo) ==
    IF Len(foo) = 0 THEN <<>>
    ELSE InsertAsc(par_sort_by_asc(SubSeq(foo, 1, Len(foo) - 1)), foo[Len(foo)])

RECURSIVE par_sort_by(_)
par_sort_by(foo) ==
    IF Len(foo) = 0 THEN <<>>
    ELSE InsertDesc(par_sort_by(SubSeq(foo, 1, Len(foo) - 1)), foo[Len(foo)])

take(s, n) == SubSeq(s, 1, IF Len(s) < n THEN Len(s) ELSE n)

\* the closure of get_optimal_moves for one root move: depth - 1 on the u16
\* depth, then abnegamax from the position after the move, Black to move
RootEval(t, pos, d, chk) ==
    IF d = 0 /\ chk
    THEN [val |-> 0, panic |-> TRUE, ovf |-> TRUE, log |-> <<>>]
    ELSE LET r == abnegamax(with(t, pos, "White"), IF d = 0 THEN U16_MAX ELSE d - 1,
                            I32_MIN, I32_MAX, -1, chk, <<>>)
         IN  [r EXCEPT !.ovf = r.ovf \/ d = 0]

\* variant pushing each pair as its evaluation completes
collect_by_completion(mvs, sc, ord) ==
    [k \in 1 .. Len(ord) |-> <<sc[ord[k]].val, mvs[ord[k]]>>]

\* collect() of the mapped parallel iterator: entry i of the Vec is the pair of
\* root move i, whatever the order ord in which the evaluations completed
collect(mvs, sc, ord) ==
    [i \in 1 .. Len(mvs) |-> <<sc[i].val, mvs[i]>>]

\* sort and truncate the collected pairs
Ranked(foo) == take(par_sort_by(foo), TopMoves)

\* get_optimal_moves run on one thread, root moves in generator order
get_optimal_moves(t, d, chk) ==
    LET g == possible_grows(t, "White")
        ev == [i \in 1 .. Len(g) |-> RootEval(t, g[i], d, chk)] \o <<>>
    IN  [panic |-> \E i \in 1 .. Len(g) : ev[i].panic,
         ovf   |-> \E i \in 1 .. Len(g) : ev[i].ovf,
         list  |-> IF \E i \in 1 .. Len(g) : ev[i].panic THEN <<>>
                   ELSE Ranked(collect(g, ev, [i \in 1 .. Len(g) |-> i]))]

\* ------------------------------------------------------------ the machine

NoAb == [val |-> 0, panic |-> FALSE, ovf |-> FALSE, log |-> <<>>]
NoGrows == [White |-> <<>>, Black |-> <<>>]

\* the windows abnegamax is called with: the root window and a narrow one
Windows == {<<I32_MIN, I32_MAX>>, <<-1, 1>>}

Init ==
    /\ table \in Seeds
    /\ placed = 0
    /\ pc = "setup"
    /\ checked = FALSE
    /\ depth = 0
    /\ sign = 1
    /\ grows = NoGrows
    /\ costv = 0
    /\ mm = 0
    /\ nm = 0
    /\ nodes = {}
    /\ ab = NoAb
    /\ window = <<I32_MIN, I32_MAX>>
    /\ moves = <<>>
    /\ scores = <<>>
    /\ order = <<>>
    /\ overflowed = FALSE
    /\ result = <<>>

\* State::place while the position is set up (an overwrite of any cell)
Place(x, y, color) ==
    /\ pc = "setup"
    /\ placed < MaxPlace
    /\ table[x][y] # color
    /\ table' = place(table, x, y, color)
    /\ placed' = placed + 1
    /\ UNCHANGED <<pc, checked, depth, sign, grows, costv, mm, nm, nodes, ab, window,
                   moves, scores, order, overflowed, result>>

\* the read-only queries on the position
Query ==
    /\ pc = "setup"
    /\ pc' = "queried"
    /\ grows' = [White |-> possible_grows(table, "White"),
                 Black |-> possible_grows(table, "Black")]
    /\ costv' = cost(table)
    /\ UNCHANGED <<table, placed, checked, depth, sign, mm, nm, nodes, ab, window,
                   moves, scores, order, overflowed, result>>

\* minimax and negamax called on the position with the same depth and side
CallPlain(d, sgn) ==
    /\ pc = "setup"
    /\ pc' = "plain"
    /\ depth' = d
    /\ sign' = sgn
    /\ mm' = minimax(table, d, sgn = 1)
    /\ nm' = negamax(table, d, sgn)
    /\ nodes' = negamax_nodes(table, d, sgn, <<>>)
    /\ UNCHANGED <<table, placed, checked, grows, costv, ab, window, moves, scores,
                   order, overflowed, result>>

\* abnegamax called on the same position with the same depth and side
CallAlphaBeta(w, chk) ==
    /\ pc = "plain"
    /\ pc' = "searched"
    /\ window' = w
    /\ checked' = chk
    /\ ab' = abnegamax(table, depth, w[1], w[2], sign, chk, <<>>)
    /\ UNCHANGED <<table, placed, depth, sign, grows, costv, mm, nm, nodes, moves,
                   scores, order, overflowed, result>>

\* get_optimal_moves on one thread
Rank(d, chk) ==
    /\ pc = "setup"
    /\ LET r == get_optimal_moves(table, d, chk)
       IN  /\ pc' = IF r.panic THEN "panicked" ELSE "returned"
           /\ overflowed' = r.ovf
           /\ result' = r.list
    /\ depth' = d
    /\ checked' = chk
    /\ moves' = possible_grows(table, "White")
    /\ UNCHANGED <<table, placed, sign, grows, costv, mm, nm, nodes, ab, window, scores,
                   order>>

NextSetup == \E x \in Idx, y \in Idx, c \in Color : Place(x, y, c)

NextState == NextSetup \/ Query
SpecState == Init /\ [][NextState]_vars

NextSearch ==
    \/ NextSetup
    \/ \E d \in 0 .. MaxDepth, sgn \in {1, -1} : CallPlain(d, sgn)
    \/ \E w \in Windows, chk \in BOOLEAN : CallAlphaBeta(w, chk)
SpecSearch == Init /\ [][NextSearch]_vars

NextRank == NextSetup \/ \E d \in 0 .. MaxDepth, chk \in BOOLEAN : Rank(d, chk)
SpecRank == Init /\ [][NextRank]_vars


\* -------------------------------------- get_optimal_moves, root moves in parallel

Pending == [done |-> FALSE, val |-> 0]

\* par_iter() over the root moves starts
StartRanking(d, chk) ==
    /\ pc = "setup"
    /\ Len(possible_grows(table, "White")) <= MaxFan
    /\ pc' = "ranking"
    /\ depth' = d
    /\ checked' = chk
    /\ moves' = possible_grows(table, "White")
    /\ scores' = [i \in 1 .. Len(possible_grows(table, "White")) |-> Pending]
    /\ order' = <<>>
    /\ overflowed' = FALSE
    /\ UNCHANGED <<table, placed, sign, grows, costv, mm, nm, nodes, ab, window, result>>

\* some worker runs the map closure on root move i; it reads the parent table
\* and searches its own copy
WorkerEval(i) ==
    /\ pc = "ranking"
    /\ i \in 1 .. Len(moves)
    /\ ~scores[i].done
    /\ LET r == RootEval(table, moves[i], depth, checked)
       IN  /\ pc' = IF r.panic THEN "panicked" ELSE "ranking"
           /\ scores' = IF r.panic THEN scores
                        ELSE [scores EXCEPT ![i] = [done |-> TRUE, val |-> r.val]]
           /\ order' = IF r.panic THEN order ELSE Append(order, i)
           /\ overflowed' = (overflowed \/ r.ovf)
    /\ UNCHANGED <<table, placed, depth, checked, sign, grows, costv, mm, nm, nodes, ab,
                   window, moves, result>>

\* every closure has returned: collect, par_sort_by, take(5)
Collect ==
    /\ pc = "ranking"
    /\ \A i \in 1 .. Len(moves) : scores[i].done
    /\ pc' = "returned"
    /\ result' = Ranked(collect(moves, scores, order))
    /\ UNCHANGED <<table, placed, depth, checked, sign, grows, costv, mm, nm, nodes, ab,
                   window, moves, scores, order, overflowed>>

NextPar ==
    \/ NextSetup
    \/ \E d \in 0 .. MaxDepth, chk \in BOOLEAN : StartRanking(d, chk)
    \/ \E i \in 1 .. MaxFan : WorkerEval(i)
    \/ Collect
SpecPar == Init /\ [][NextPar]_vars


\* ================================================================ claims

\* the adjacency rule stated on the geometry of the board: the in-bounds
\* orthogonal and diagonal neighbours of a cell
AbsI(n) == IF n < 0 THEN -n ELSE n
OrthNbrs(p) == {q \in Cells : AbsI(q[1] - p[1]) + AbsI(q[2] - p[2]) = 1}
DiagNbrs(p) == {q \in Cells : AbsI(q[1] - p[1]) = 1 /\ AbsI(q[2] - p[2]) = 1}
OrthCount(t, p, c) == Cardinality({q \in OrthNbrs(p) : t[q[1]][q[2]] = c})
DiagCount(t, p, c) == Cardinality({q \in DiagNbrs(p) : t[q[1]][q[2]] = c})
Growable(t, p, c) ==
    t[p[1]][p[2]] = "Empty" /\ (OrthCount(t, p, c) >= 2 \/ DiagCount(t, p, c) >= 2)
GrowableCells(t, c) == {p \in Cells : Growable(t, p, c)}
RowMajor(p) == p[1] * TABLE_SIZE + p[2]
Stones(t, c) == Cardinality({p \in Cells : t[p[1]][p[2]] = c})
RootWindow == <<I32_MIN, I32_MAX>>

\* C1: minimax(d, true) returns the same integer as negamax(d, +1), for every
\* position and depth, also where a side to move has no grow move.
C1_MinimaxEqualsNegamax ==
    (pc \in {"plain", "searched"} /\ sign = 1) => mm = nm

\* C2: abnegamax(d, i32::MIN, i32::MAX, +1) returns exactly the value of
\* negamax(d, +1) on the same position and depth.
C2_AlphaBetaEqualsNegamax ==
    (pc = "searched" /\ sign = 1 /\ window = RootWindow)
        => (~ab.panic /\ ab.val = nm)

\* C3: for depth >= 1 the list of get_optimal_moves is best-first for White: every
\* pair carries the minimax value of the position after its move, searched
\* depth - 1 plies with Black to move, and the first pair has the greatest such
\* value among all of White's root moves.
C3_BestFirstByMinimax ==
    (pc = "returned" /\ depth >= 1 /\ Len(result) >= 1)
        => /\ \A i \in 1 .. Len(result) :
                result[i][1] = minimax(with(table, result[i][2], "White"), depth - 1, FALSE)
           /\ \A p \in GrowableCells(table, "White") :
                result[1][1] >= minimax(with(table, p, "White"), depth - 1, FALSE)

\* C4: in each search variant a node with depth > 0 whose side to move has no
\* grow move does not fail and returns the static cost of its board.
C4_NoMovesFallsBackToCost ==
    (pc = "searched" /\ depth > 0 /\ GrowableCells(table, ColorOf(sign)) = {})
        => /\ mm = cost(table)
           /\ nm = cost(table)
           /\ ~ab.panic
           /\ ab.val = cost(table)

\* C5: possible_grows(c) lists exactly the Empty cells with at least 2 orthogonal
\* neighbours of colour c or at least 2 diagonal neighbours of colour c (the two
\* groups counted separately), each once, in row-major order.
C5_PossibleGrows ==
    pc = "queried" =>
        \A c \in {"White", "Black"} :
            /\ {grows[c][i] : i \in 1 .. Len(grows[c])} = GrowableCells(table, c)
            /\ \A i, j \in 1 .. Len(grows[c]) :
                  i < j => RowMajor(grows[c][i]) < RowMajor(grows[c][j])

\* a cell with exactly one orthogonal and one diagonal White neighbour is left
\* out while other cells are listed
C5_Witness ==
    /\ pc = "queried"
    /\ Len(grows["White"]) >= 2
    /\ \E p \in Cells :
          /\ table[p[1]][p[2]] = "Empty"
          /\ OrthCount(table, p, "White") = 1
          /\ DiagCount(table, p, "White") = 1

\* the score the map closure computes for root move p, and the moves in the result
RootScore(p) == RootEval(table, p, depth, checked).val
Listed == {result[i][2] : i \in 1 .. Len(result)}

\* C6: get_optimal_moves returns min(5, number of White root moves) pairs, each a
\* distinct legal White root move with its score, in non-increasing score order,
\* equal scores in row-major move order, and no move left out scores strictly
\* higher than a listed one.
C6_TopFive ==
    pc = "returned" =>
        LET legal == GrowableCells(table, "White")
            n == Cardinality(legal)
        IN  /\ Len(result) = IF n < 5 THEN n ELSE 5
            /\ \A i \in 1 .. Len(result) :
                  result[i][2] \in legal /\ result[i][1] = RootScore(result[i][2])
            /\ \A i, j \in 1 .. Len(result) :
                  i < j => /\ result[i][2] # result[j][2]
                           /\ result[i][1] >= result[j][1]
                           /\ (result[i][1] = result[j][1]
                                 => RowMajor(result[i][2]) < RowMajor(result[j][2]))
            /\ \A p \in legal \ Listed :
                  \A i \in 1 .. Len(result) : RootScore(p) <= result[i][1]

\* more than five root moves, a tie inside the list and a strictly lower last entry
C6_Witness ==
    /\ pc = "returned"
    /\ Cardinality(GrowableCells(table, "White")) > 5
    /\ Len(result) = 5
    /\ result[1][1] > result[5][1]
    /\ \E i \in 1 .. 4 : result[i][1] = result[i + 1][1]

\* C7: whatever the order in which the root move evaluations complete, the call
\* ends as the one-thread run does (the same list in the same order, or the same
\* panic), and no step of the call changes the root table.
C7_Deterministic ==
    [][pc = "ranking" =>
          /\ table' = table
          /\ pc' = "returned" =>
                LET ref == get_optimal_moves(table, depth, checked)
                IN  ~ref.panic /\ result' = ref.list
          /\ pc' = "panicked" => get_optimal_moves(table, depth, checked).panic]_vars

\* a returned ranking whose evaluations completed against generator order and
\* with two equal scores
C7_Witness ==
    /\ pc = "returned"
    /\ Len(order) >= 2
    /\ order[1] > order[2]
    /\ \E i, j \in 1 .. Len(moves) : i # j /\ scores[i].val = scores[j].val

\* reading the event log of abnegamax: the parent of a node, the board and the
\* side to move at a node, the place of a move in its parent's generator list
Front(q) == SubSeq(q, 1, Len(q) - 1)
RECURSIVE BoardAt(_, _, _)
BoardAt(t, path, sgn) ==
    IF Len(path) = 0 THEN t
    ELSE BoardAt(with(t, path[1], ColorOf(sgn)), Tail(path), -sgn)
SignAt(sgn, path) == IF Len(path) % 2 = 0 THEN sgn ELSE -sgn
GenIndex(parent, pos) ==
    LET g == possible_grows(BoardAt(table, parent, sign), ColorOf(SignAt(sign, parent)))
    IN  CHOOSE k \in 1 .. Len(g) : g[k] = pos
VisitIdx == {i \in 1 .. Len(ab.log) : ab.log[i].kind = "visit"}

\* C8: abnegamax is invoked only on nodes negamax is invoked on, visits siblings
\* in generator order, and once alpha >= beta after folding a child in, returns
\* alpha with no further sibling visited.
C8_PrunedSubsetAndCutoff ==
    pc = "searched" =>
        /\ \A i \in VisitIdx : ab.log[i].path \in nodes
        /\ \A i, j \in VisitIdx :
              (/\ i < j
               /\ Len(ab.log[i].path) >= 1
               /\ Len(ab.log[i].path) = Len(ab.log[j].path)
               /\ Front(ab.log[i].path) = Front(ab.log[j].path))
              => GenIndex(Front(ab.log[i].path), ab.log[i].path[Len(ab.log[i].path)])
                   < GenIndex(Front(ab.log[j].path), ab.log[j].path[Len(ab.log[j].path)])
        /\ \A i \in 1 .. Len(ab.log) :
              (ab.log[i].kind = "fold" /\ ab.log[i].a >= ab.log[i].b)
              => /\ i < Len(ab.log)
                 /\ ab.log[i + 1].kind = "ret"
                 /\ ab.log[i + 1].path = ab.log[i].path
                 /\ ab.log[i + 1].a = ab.log[i].a
                 /\ \A j \in VisitIdx :
                       j > i => ~(Len(ab.log[j].path) >= 1
                                  /\ Front(ab.log[j].path) = ab.log[i].path)

\* a finished run that cut a node off and so skipped nodes negamax visits
C8_Witness ==
    /\ pc = "searched"
    /\ ~ab.panic
    /\ depth >= 2
    /\ \E i \in 1 .. Len(ab.log) : ab.log[i].kind = "fold" /\ ab.log[i].a >= ab.log[i].b
    /\ {ab.log[i].path : i \in VisitIdx} # nodes

\* C9: cost() is (White stones + Empty cells growable by White) minus (Black
\* stones + Empty cells growable by Black), a cell growable by both counting for
\* each; 0 on the all-Empty board, White stones - Black stones on a full board.
C9_Cost ==
    pc = "queried" =>
        /\ costv = (Stones(table, "White") + Cardinality(GrowableCells(table, "White")))
                   - (Stones(table, "Black") + Cardinality(GrowableCells(table, "Black")))
        /\ (Stones(table, "Empty") = TABLE_SIZE * TABLE_SIZE) => costv = 0
        /\ (Stones(table, "Empty") = 0)
              => costv = Stones(table, "White") - Stones(table, "Black")

\* stones of both colours and an Empty cell growable by both
C9_Witness ==
    /\ pc = "queried"
    /\ Stones(table, "White") > 0
    /\ Stones(table, "Black") > 0
    /\ GrowableCells(table, "White") \cap GrowableCells(table, "Black") # {}

\* C10: during a root ranking no integer operation overflows: depth - 1 never
\* underflows the u16 depth and no negation is applied to i32::MIN.
C10_NoOverflow ==
    pc \in {"returned", "panicked"} => ~overflowed

====
